---- MODULE Spec2Model ----
(***************************************************************************)
(* A model of the real-time chat backend: the Socket.IO server of          *)
(* src/lib/socket.ts and the REST routes of src/routes/chat.routes.ts,     *)
(* over the relational store (users, conversations, participants,          *)
(* messages).                                                              *)
(*                                                                         *)
(* Every handler is asynchronous.  A handler is cut at its awaits: one     *)
(* action is "the awaited store call executes, then the handler runs on    *)
(* to its next await (or to its end)".  The synchronous code before a      *)
(* handler's first await reads no shared state except the clock, so it is  *)
(* part of the handler's first action.  Handlers that are between two      *)
(* awaits are held in `tasks` (for a connection's own connection and       *)
(* disconnect handlers: in `pc`).                                          *)
(***************************************************************************)
EXTENDS Integers, Sequences, FiniteSets, TLC

\* ------------------------------------------------------------------ bounds
MaxConns == 2
MaxMsgs == 2
MaxTime == 2
MaxTasks == 2

\* ------------------------------------------------------------- value sets
Users == {"u1", "u2"}
Convs == {"c1", "c2", "c3"}
Conns == 1..MaxConns
MsgIds == 1..MaxMsgs

Null == -1
NoUser == "-"
NoConv == "-"

\* Bearer tokens offered at the handshake: none, one the identity provider
\* rejects, and one valid token per user.
NoToken == "none"
BadToken == "bad"
Tokens == {NoToken, BadToken} \cup Users

\* Message content as a sequence of characters.  <<>> stands for both the
\* empty string and a missing content: `!content` is true of both.
Contents == { <<>>, <<" ">>, <<"h">>, <<" ", "h", " ">> }

\* The status values a client may send (interface MessageStatusData).
StatusInputs == {"delivered", "read"}

\* ------------------------------------------------------------------ state
VARIABLES
    \* the store
    conversations,  \* [Convs -> Null or updatedAt]: Null = no such row
    participants,   \* set of <<conversationId, userId>> rows
    lastReadAt,     \* [Convs \X Users -> Null or time]
    messages,       \* [ids inserted and not deleted -> message row]
    nextId,         \* number of message rows ever inserted
    isOnline,       \* [Users -> BOOLEAN]
    \* the Socket.IO server
    st,             \* [Conns -> "idle" | "rejected" | "open" | "closed"]
    connUser,       \* [Conns -> user attached by the middleware]
    pc,             \* [Conns -> progress of the connection/disconnect handlers]
    rooms,          \* [Conns -> conversation rooms the adapter holds it in]
    \* handlers between two awaits
    tasks,
    \* the clock, and what the last step sent (events and HTTP responses)
    now,
    out,
    \* history
    prevRead,       \* the mark-read call that completed last, if nothing ran since
    onlineCount,    \* [Users -> user:online broadcasts so far]
    offlineCount,   \* [Users -> user:offline broadcasts since the user last had no connection]
    lastDisc        \* [Users -> time the user's last live connection closed]

storeVars == <<conversations, participants, lastReadAt, messages, nextId, isOnline>>
sockVars == <<st, connUser, pc, rooms>>
histVars == <<prevRead, onlineCount, offlineCount, lastDisc>>
vars == <<storeVars, sockVars, tasks, now, out, histVars>>

\* ---------------------------------------------------------------- helpers
RECURSIVE TrimLeft(_)
TrimLeft(s) == IF s # <<>> /\ Head(s) = " " THEN TrimLeft(Tail(s)) ELSE s

RECURSIVE TrimRight(_)
TrimRight(s) ==
    IF s # <<>> /\ s[Len(s)] = " " THEN TrimRight(SubSeq(s, 1, Len(s) - 1)) ELSE s

Trim(s) == TrimRight(TrimLeft(s))

ContentMissingUntrimmed(content) == content = <<>>

\* `!content || content.trim() === ''`
ContentMissing(content) == content = <<>> \/ Trim(content) = <<>>

\* db.query.conversationParticipants.findFirst(conversationId, userId)
IsParticipant(cv, u) == <<cv, u>> \in participants

\* db.query.conversationParticipants.findMany(userId)
UserConversations(u) == { cv \in Convs : <<cv, u>> \in participants }

\* The sockets a broadcast reaches: the namespace holds only connected sockets.
Connected == { c \in Conns : st[c] = "open" }

\* io.to(`conversation:${cv}`)
InRoom(cv) == { c \in Connected : cv \in rooms[c] }

\* The connections of a user that are open.
LiveConns(u) == { c \in Connected : connUser[c] = u }

\* An event or an HTTP response, in one shape; a constructor fills in its own
\* fields.  `to` is the set of sockets an event is delivered to.
Blank ==
    [ev |-> "-", to |-> {}, user |-> NoUser, conv |-> NoConv, msg |-> 0,
     status |-> "-", content |-> <<>>, text |-> "", code |-> 0, count |-> 0,
     isTyping |-> FALSE, unread |-> <<>>]

Event(ev, to, u, cv, m, status, content) ==
    [Blank EXCEPT !.ev = ev, !.to = to, !.user = u, !.conv = cv, !.msg = m,
                  !.status = status, !.content = content]

\* socket.emit('error', { message })
ErrorEvent(c, text) == [Blank EXCEPT !.ev = "error", !.to = {c}, !.text = text]

\* res.status(code).json(...)
Http(u, code, text) == [Blank EXCEPT !.ev = "http", !.user = u, !.code = code, !.text = text]

\* A handler between two awaits: its step `k` and the values it holds.  `prior`
\* is history: the stored status a message:status request found.  `seq` tells
\* the sends of one origin apart: the place of a send among those its
\* connection (its caller, over REST) has in flight.  `seen` is what GET
\* /chat/conversations read of the caller's participant rows.
Task(k, c, u, cv, m, status, content, t) ==
    [k |-> k, conn |-> c, user |-> u, conv |-> cv, msg |-> m, status |-> status,
     content |-> content, t |-> t, prior |-> "-", seq |-> 0, seen |-> <<>>]

CanSpawn == Cardinality(tasks) < MaxTasks

NoRead == [user |-> NoUser, conv |-> NoConv, at |-> Null, phase |-> "-"]

\* ------------------------------------------------------------------- Init
\* The store the server starts on: conversation c1 of both users, c2 of u2
\* alone, no message yet.  No socket is connected.
InitStore ==
    /\ conversations = [cv \in Convs |-> IF cv \in {"c1", "c2"} THEN 0 ELSE Null]
    /\ participants = { <<"c1", u>> : u \in Users } \cup { <<"c2", "u2">> }
    /\ lastReadAt = [p \in Convs \X Users |-> Null]
    /\ messages = <<>>
    /\ nextId = 0

Init ==
    /\ InitStore
    /\ isOnline = [u \in Users |-> FALSE]
    /\ st = [c \in Conns |-> "idle"]
    /\ connUser = [c \in Conns |-> NoUser]
    /\ pc = [c \in Conns |-> "none"]
    /\ rooms = [c \in Conns |-> {}]
    /\ tasks = {}
    /\ now = 0
    /\ out = <<>>
    /\ prevRead = NoRead
    /\ onlineCount = [u \in Users |-> 0]
    /\ offlineCount = [u \in Users |-> 0]
    /\ lastDisc = [u \in Users |-> Null]

\* The same store once every socket has connected and its connection handler
\* has run to its end: sockets 1, 3, ... are u1's, sockets 2, 4, ... are u2's.
UserOf(c) == IF c % 2 = 1 THEN "u1" ELSE "u2"

InitReady ==
    /\ InitStore
    /\ isOnline = [u \in Users |-> \E c \in Conns : UserOf(c) = u]
    /\ st = [c \in Conns |-> "open"]
    /\ connUser = [c \in Conns |-> UserOf(c)]
    /\ pc = [c \in Conns |-> "ready"]
    /\ rooms = [c \in Conns |-> UserConversations(UserOf(c))]
    /\ tasks = {}
    /\ now = 0
    /\ out = <<>>
    /\ prevRead = NoRead
    /\ onlineCount = [u \in Users |-> Cardinality({ c \in Conns : UserOf(c) = u })]
    /\ offlineCount = [u \in Users |-> 0]
    /\ lastDisc = [u \in Users |-> Null]

\* ------------------------------------------------------------- the clock
Tick ==
    /\ now < MaxTime
    /\ now' = now + 1
    /\ out' = <<>>
    /\ UNCHANGED <<storeVars, sockVars, tasks, histVars>>

\* --------------------------------------------- connection and disconnection
OnlineEvent(u) == Event("user:online", Connected, u, NoConv, 0, "-", <<>>)

OfflineEvent(u) == Event("user:offline", Connected, u, NoConv, 0, "-", <<>>)

AuthenticatedAny(tok) == TRUE

\* io.use: a missing token and a token the identity provider rejects end the
\* handshake; a verified one attaches the user, the socket connects and the
\* connection handler starts (its first await, the users update, is issued).
Authenticated(tok) == tok # NoToken /\ tok \in Users

\* Socket ids are fresh and interchangeable: they are handed out in order.
Handshake(c, tok) ==
    /\ st[c] = "idle"
    /\ \A d \in Conns : d < c => st[d] # "idle"
    /\ IF Authenticated(tok)
       THEN /\ st' = [st EXCEPT ![c] = "open"]
            /\ connUser' = [connUser EXCEPT ![c] = tok]
            /\ pc' = [pc EXCEPT ![c] = "update"]
            /\ offlineCount' = IF LiveConns(tok) = {}
                               THEN [offlineCount EXCEPT ![tok] = 0]
                               ELSE offlineCount
       ELSE /\ st' = [st EXCEPT ![c] = "rejected"]
            /\ UNCHANGED <<connUser, pc, offlineCount>>
    /\ out' = <<>>
    /\ UNCHANGED <<storeVars, rooms, tasks, now, prevRead, onlineCount, lastDisc>>

\* The connection handler's  await db.update(users).set({ isOnline: true }).
ConnectionSetOnline(c) ==
    /\ pc[c] = "update"
    /\ isOnline' = [isOnline EXCEPT ![connUser[c]] = TRUE]
    /\ pc' = [pc EXCEPT ![c] = "query"]
    /\ out' = <<>>
    /\ UNCHANGED <<conversations, participants, lastReadAt, messages, nextId,
                   st, connUser, rooms, tasks, now, histVars>>

AutoJoinRoomsEveryConversation(u) == { cv \in Convs : conversations[cv] # Null }

\* The rooms the connection handler joins: one per participant row of the user.
AutoJoinRooms(u) == UserConversations(u)

\* Whether the connection handler broadcasts user:online for this connection.
EmitsOnline(c) == TRUE

\* The connection handler after  await findMany: joins the rooms, broadcasts
\* user:online and registers the socket's event handlers.  It runs to its end
\* whether or not the socket has closed meanwhile.
ConnectionJoinRooms(c) ==
    /\ pc[c] = "query"
    /\ rooms' = [rooms EXCEPT ![c] = @ \cup AutoJoinRooms(connUser[c])]
    /\ out' = IF EmitsOnline(c) THEN <<OnlineEvent(connUser[c])>> ELSE <<>>
    /\ onlineCount' = IF EmitsOnline(c)
                      THEN [onlineCount EXCEPT ![connUser[c]] = @ + 1]
                      ELSE onlineCount
    /\ pc' = [pc EXCEPT ![c] = "ready"]
    /\ UNCHANGED <<storeVars, st, connUser, tasks, now, prevRead, offlineCount, lastDisc>>

\* The event handlers of a socket exist once the connection handler has ended,
\* and a closed socket receives no client event.
Listening(c) == st[c] = "open" /\ pc[c] = "ready"

\* The socket closes: it leaves every room, and then its disconnect handler,
\* if registered by now, starts (its users update is issued).
Disconnect(c) ==
    /\ st[c] = "open"
    /\ st' = [st EXCEPT ![c] = "closed"]
    /\ rooms' = [rooms EXCEPT ![c] = {}]
    /\ pc' = [pc EXCEPT ![c] = IF @ = "ready" THEN "disc" ELSE @]
    /\ lastDisc' = IF LiveConns(connUser[c]) = {c}
                   THEN [lastDisc EXCEPT ![connUser[c]] = now]
                   ELSE lastDisc
    /\ out' = <<>>
    /\ UNCHANGED <<storeVars, connUser, tasks, now, prevRead, onlineCount, offlineCount>>

\* Whether the disconnect handler of this connection broadcasts user:offline.
EmitsOffline(c) == TRUE

\* The disconnect handler's  await db.update(users).set({ isOnline: false }),
\* then io.emit('user:offline').
DisconnectSetOffline(c) ==
    /\ pc[c] = "disc"
    /\ isOnline' = [isOnline EXCEPT ![connUser[c]] = FALSE]
    /\ out' = IF EmitsOffline(c) THEN <<OfflineEvent(connUser[c])>> ELSE <<>>
    /\ offlineCount' = IF EmitsOffline(c)
                       THEN [offlineCount EXCEPT ![connUser[c]] = @ + 1]
                       ELSE offlineCount
    /\ pc' = [pc EXCEPT ![c] = "done"]
    /\ UNCHANGED <<conversations, participants, lastReadAt, messages, nextId,
                   st, connUser, rooms, tasks, now, prevRead, onlineCount, lastDisc>>

\* ------------------------------------------------------------------ rooms
JoinAllowedAnyone(cv, u) == TRUE

\* Whether conversation:join lets the socket into the room.
JoinAllowed(cv, u) == IsParticipant(cv, u)

\* socket.on('conversation:join'): one await (findFirst), then join and reply.
\* A user with no participant row gets no reply at all.
ConversationJoin(c, cv) ==
    /\ Listening(c)
    /\ IF JoinAllowed(cv, connUser[c])
       THEN /\ rooms' = [rooms EXCEPT ![c] = @ \cup {cv}]
            /\ out' = <<Event("conversation:joined", {c}, NoUser, cv, 0, "-", <<>>)>>
       ELSE /\ rooms' = rooms
            /\ out' = <<>>
    /\ UNCHANGED <<storeVars, st, connUser, pc, tasks, now, histVars>>

\* socket.on('conversation:leave'): no await.
ConversationLeave(c, cv) ==
    /\ Listening(c)
    /\ rooms' = [rooms EXCEPT ![c] = @ \ {cv}]
    /\ out' = <<Event("conversation:left", {c}, NoUser, cv, 0, "-", <<>>)>>
    /\ UNCHANGED <<storeVars, st, connUser, pc, tasks, now, histVars>>

\* POST /chat/conversations: 400 without participantIds; otherwise a new
\* conversation row and one participant row per member, the creator included.
\* The new id is known to nobody until the response, so the two inserts are
\* one step.
FreshConv == CHOOSE cv \in Convs : conversations[cv] = Null

PostConversations(u, participantIds) ==
    /\ IF participantIds = {}
       THEN /\ out' = <<Http(u, 400, "At least one participant is required")>>
            /\ UNCHANGED <<conversations, participants>>
       ELSE /\ \E cv \in Convs : conversations[cv] = Null
            /\ conversations' = [conversations EXCEPT ![FreshConv] = now]
            /\ participants' = participants \cup
                                 { <<FreshConv, p>> : p \in {u} \cup participantIds }
            /\ out' = <<[Http(u, 201, "") EXCEPT !.conv = FreshConv]>>
    /\ UNCHANGED <<lastReadAt, messages, nextId, isOnline, sockVars, tasks, now,
                   histVars>>

\* ---------------------------------------------------------------- typing
\* socket.to(`conversation:${cv}`): the room without the socket itself.
OthersInRoom(c, cv) == InRoom(cv) \ {c}

TypingUpdate(c, cv, isTyping) ==
    [Event("typing:update", OthersInRoom(c, cv), connUser[c], cv, 0, "-", <<>>)
        EXCEPT !.isTyping = isTyping]

\* socket.on('typing:start')
TypingStart(c, cv) ==
    /\ Listening(c)
    /\ out' = <<TypingUpdate(c, cv, TRUE)>>
    /\ UNCHANGED <<storeVars, sockVars, tasks, now, histVars>>

\* socket.on('typing:stop')
TypingStop(c, cv) ==
    /\ Listening(c)
    /\ out' = <<TypingUpdate(c, cv, FALSE)>>
    /\ UNCHANGED <<storeVars, sockVars, tasks, now, histVars>>

\* --------------------------------------------------------------- sending
\* A message row as  db.insert(messages).values({...}).returning()  makes it:
\* status and isEdited take the column defaults, the timestamps are now().
NewMessage(cv, u, content) ==
    [conversationId |-> cv, senderId |-> u, content |-> content, status |-> "sent",
     isEdited |-> FALSE, createdAt |-> now, updatedAt |-> now]

\* Inserts that are issued and not executed yet; ids are not handed out beyond
\* MaxMsgs.
PendingInserts == { t \in tasks : t.k \in {"send:insert", "post:insert"} }

\* The sends of connection c (c = 0: of user u over REST) that are in flight.
SendsInFlight(c, u) ==
    { t \in tasks : /\ t.conn = c /\ t.user = u
                    /\ t.k \in {"send:insert", "send:emit", "post:insert", "post:touch",
                                "post:emit"} }

\* The place the next send of that origin takes: after all those in flight
\* (a send is taken while that place is within MaxMsgs).
SendSeq(c, u) ==
    LET seqs == { t.seq : t \in SendsInFlight(c, u) }
    IN IF seqs = {} THEN 1 ELSE 1 + (CHOOSE x \in seqs : \A y \in seqs : y <= x)

CanInsert == CanSpawn /\ nextId + Cardinality(PendingInserts) < MaxMsgs

SendAcceptedUnchecked(cv, u, content) == ~ContentMissing(content)

\* The two checks a send passes before anything is written: content present,
\* sender a participant of the conversation.
SendAccepted(cv, u, content) == ~ContentMissing(content) /\ IsParticipant(cv, u)

\* What a rejected send tells the requester.
SendRejection(cv, u, content) ==
    IF ContentMissing(content) THEN "Message content is required"
    ELSE "Not a participant of this conversation"

\* socket.on('message:send'), up to the insert it issues.
MessageSend(c, cv, content) ==
    /\ Listening(c)
    /\ IF SendAccepted(cv, connUser[c], content)
       THEN /\ CanInsert
            /\ SendSeq(c, connUser[c]) <= MaxMsgs
            /\ tasks' = tasks \cup
                 {[Task("send:insert", c, connUser[c], cv, 0, "-", Trim(content), Null)
                     EXCEPT !.seq = SendSeq(c, connUser[c])]}
            /\ out' = <<>>
       ELSE /\ tasks' = tasks
            /\ out' = <<ErrorEvent(c, SendRejection(cv, connUser[c], content))>>
    /\ UNCHANGED <<storeVars, sockVars, now, histVars>>

\* The insert executes; the handler goes on to look the sender up.
MessageSendInsert(t) ==
    /\ t \in tasks /\ t.k = "send:insert"
    /\ nextId' = nextId + 1
    /\ messages' = messages @@ (nextId' :> NewMessage(t.conv, t.user, t.content))
    /\ tasks' = (tasks \ {t}) \cup {[t EXCEPT !.k = "send:emit", !.msg = nextId', !.t = now]}
    /\ out' = <<>>
    /\ prevRead' = NoRead
    /\ UNCHANGED <<conversations, participants, lastReadAt, isOnline, sockVars, now,
                   onlineCount, offlineCount, lastDisc>>

MessageNewAhead(t) ==
    Event("message:new", InRoom(t.conv), t.user, t.conv, t.msg + 1, "sent", t.content)

MessageNewToOthers(t) ==
    Event("message:new", InRoom(t.conv) \ {t.conn}, t.user, t.conv, t.msg, "sent", t.content)

\* message:new as both send paths emit it: the row the insert returned.
MessageNew(t) ==
    Event("message:new", InRoom(t.conv), t.user, t.conv, t.msg, "sent", t.content)

ConversationUpdate(t) ==
    Event("conversation:update", InRoom(t.conv), t.user, t.conv, t.msg, "sent", t.content)

\* The sender lookup returns; message:new and conversation:update go to the room.
MessageSendEmit(t) ==
    /\ t \in tasks /\ t.k = "send:emit"
    /\ tasks' = tasks \ {t}
    /\ out' = <<MessageNew(t), ConversationUpdate(t)>>
    /\ UNCHANGED <<storeVars, sockVars, now, histVars>>

\* POST /chat/conversations/:conversationId/messages, up to the insert.
PostMessage(u, cv, content) ==
    /\ IF SendAccepted(cv, u, content)
       THEN /\ CanInsert
            /\ SendSeq(0, u) <= MaxMsgs
            /\ tasks' = tasks \cup
                 {[Task("post:insert", 0, u, cv, 0, "-", Trim(content), Null)
                     EXCEPT !.seq = SendSeq(0, u)]}
            /\ out' = <<>>
       ELSE /\ tasks' = tasks
            /\ out' = <<Http(u, IF ContentMissing(content) THEN 400 ELSE 403,
                             SendRejection(cv, u, content))>>
    /\ UNCHANGED <<storeVars, sockVars, now, histVars>>

\* The insert executes; the route issues the conversation update with the
\* time it reads now.
PostMessageInsert(t) ==
    /\ t \in tasks /\ t.k = "post:insert"
    /\ nextId' = nextId + 1
    /\ messages' = messages @@ (nextId' :> NewMessage(t.conv, t.user, t.content))
    /\ tasks' = (tasks \ {t}) \cup {[t EXCEPT !.k = "post:touch", !.msg = nextId', !.t = now]}
    /\ out' = <<>>
    /\ prevRead' = NoRead
    /\ UNCHANGED <<conversations, participants, lastReadAt, isOnline, sockVars, now,
                   onlineCount, offlineCount, lastDisc>>

\* db.update(conversations).set({ updatedAt }) executes.
PostMessageTouch(t) ==
    /\ t \in tasks /\ t.k = "post:touch"
    /\ conversations' = [conversations EXCEPT ![t.conv] = t.t]
    /\ tasks' = (tasks \ {t}) \cup {[t EXCEPT !.k = "post:emit"]}
    /\ out' = <<>>
    /\ UNCHANGED <<participants, lastReadAt, messages, nextId, isOnline, sockVars, now,
                   histVars>>

\* The sender lookup returns; message:new goes to the room, 201 to the caller.
PostMessageEmit(t) ==
    /\ t \in tasks /\ t.k = "post:emit"
    /\ tasks' = tasks \ {t}
    /\ out' = <<MessageNew(t), [Http(t.user, 201, "") EXCEPT !.msg = t.msg]>>
    /\ UNCHANGED <<storeVars, sockVars, now, histVars>>

\* ---------------------------------------------------------------- status
\* The order of the enum message_status.
Rank(status) == CASE status = "sent" -> 0 [] status = "delivered" -> 1 [] status = "read" -> 2

\* The status  db.update(messages).set({ status })  stores over the current one.
StoredStatus(current, requested) == requested

\* socket.on('message:status'): the update executes (on no row, if the id is
\* unknown); the handler goes on to read the message back.
MessageStatus(c, m, status) ==
    /\ Listening(c)
    /\ CanSpawn
    /\ messages' = [id \in DOMAIN messages |->
                      IF id = m
                      THEN [messages[id] EXCEPT !.status = StoredStatus(@, status)]
                      ELSE messages[id]]
    /\ tasks' = tasks \cup
         {[Task("status:emit", c, connUser[c], NoConv, m, status, <<>>, Null)
             EXCEPT !.prior = IF m \in DOMAIN messages THEN messages[m].status ELSE "-"]}
    /\ out' = <<>>
    /\ prevRead' = NoRead
    /\ UNCHANGED <<conversations, participants, lastReadAt, nextId, isOnline, sockVars, now,
                   onlineCount, offlineCount, lastDisc>>

StatusUpdate(to, m, status, u) ==
    Event("message:status:update", to, u, NoConv, m, status, <<>>)

\* findFirst returns; if the message exists, message:status:update goes to
\* the room of its conversation, carrying the requested status.
MessageStatusEmit(t) ==
    /\ t \in tasks /\ t.k = "status:emit"
    /\ tasks' = tasks \ {t}
    /\ out' = IF t.msg \in DOMAIN messages
              THEN <<StatusUpdate(InRoom(messages[t.msg].conversationId), t.msg,
                                  t.status, t.user)>>
              ELSE <<>>
    /\ UNCHANGED <<storeVars, sockVars, now, histVars>>

\* ------------------------------------------------------------- mark as read
\* `io` as chat.routes.ts imports it from lib/socket, which exports no `io`:
\* the binding is undefined, so the route's `&& io` is false.
IoImported == FALSE

\* The tasks of POST .../read that are in flight for (u, cv).
ReadTasks(u, cv) ==
    { t \in tasks : t.k \in {"read:participant", "read:messages"} /\ t.user = u /\ t.conv = cv }

\* POST /chat/conversations/:conversationId/read reads the clock and issues
\* the participant update.
PostRead(u, cv) ==
    /\ CanSpawn
    /\ tasks' = tasks \cup {Task("read:participant", 0, u, cv, 0, "-", <<>>, now)}
    /\ out' = <<>>
    /\ prevRead' = IF prevRead.user = u /\ prevRead.conv = cv /\ prevRead.phase = "done"
                   THEN [prevRead EXCEPT !.phase = "again"]
                   ELSE NoRead
    /\ UNCHANGED <<storeVars, sockVars, now, onlineCount, offlineCount, lastDisc>>

\* db.update(conversationParticipants).set({ lastReadAt }) executes, on the
\* caller's participant row if there is one.
PostReadSetLastRead(t) ==
    /\ t \in tasks /\ t.k = "read:participant"
    /\ lastReadAt' = IF IsParticipant(t.conv, t.user)
                     THEN [lastReadAt EXCEPT ![<<t.conv, t.user>>] = t.t]
                     ELSE lastReadAt
    /\ tasks' = (tasks \ {t}) \cup {[t EXCEPT !.k = "read:messages"]}
    /\ out' = <<>>
    /\ prevRead' = IF prevRead.user = t.user /\ prevRead.conv = t.conv
                      /\ prevRead.phase = "again"
                   THEN prevRead
                   ELSE NoRead
    /\ UNCHANGED <<conversations, participants, messages, nextId, isOnline, sockVars, now,
                   onlineCount, offlineCount, lastDisc>>

ToMarkReadAnySender(u, cv) ==
    { m \in DOMAIN messages :
        messages[m].conversationId = cv /\ messages[m].status # "read" }

\* The rows the bulk update matches: of the conversation, not sent by the
\* caller, not read yet.
ToMarkRead(u, cv) ==
    { m \in DOMAIN messages :
        /\ messages[m].conversationId = cv
        /\ messages[m].senderId # u
        /\ messages[m].status # "read" }

\* The events of the route's forEach over the returned rows, by ascending id.
RECURSIVE ReadEvents(_, _, _)
ReadEvents(ms, u, cv) ==
    IF ms = {} THEN <<>>
    ELSE LET m == CHOOSE x \in ms : \A y \in ms : x <= y
         IN <<StatusUpdate(InRoom(cv), m, "read", u)>> \o ReadEvents(ms \ {m}, u, cv)

\* The bulk update executes; the route emits (if it holds an io) and answers.
PostReadSetMessages(t) ==
    /\ t \in tasks /\ t.k = "read:messages"
    /\ LET updated == ToMarkRead(t.user, t.conv) IN
        /\ messages' = [id \in DOMAIN messages |->
                          IF id \in updated
                          THEN [messages[id] EXCEPT !.status = "read"]
                          ELSE messages[id]]
        /\ out' = (IF updated # {} /\ IoImported
                   THEN ReadEvents(updated, t.user, t.conv) ELSE <<>>)
                  \o <<[Http(t.user, 200, "Conversation marked as read")
                          EXCEPT !.conv = t.conv, !.count = Cardinality(updated)]>>
    /\ tasks' = tasks \ {t}
    /\ prevRead' = IF ReadTasks(t.user, t.conv) = {t}
                   THEN [user |-> t.user, conv |-> t.conv,
                         at |-> lastReadAt[<<t.conv, t.user>>], phase |-> "done"]
                   ELSE NoRead
    /\ UNCHANGED <<conversations, participants, lastReadAt, nextId, isOnline, sockVars, now,
                   onlineCount, offlineCount, lastDisc>>

\* GET /chat/conversations: the unread count of a participant row, the
\* messages of the conversation by others created after its lastReadAt (all
\* of them by others while lastReadAt is null).
UnreadCount(u, cv) ==
    Cardinality({ m \in DOMAIN messages :
        /\ messages[m].conversationId = cv
        /\ messages[m].senderId # u
        /\ \/ lastReadAt[<<cv, u>>] = Null
           \/ messages[m].createdAt > lastReadAt[<<cv, u>>] })

UnreadMessagesAnySender(u, cv, seen) ==
    { m \in DOMAIN messages :
        /\ messages[m].conversationId = cv
        /\ seen = Null \/ messages[m].createdAt > seen }

\* The messages GET /chat/conversations counts as unread for a participant
\* row whose lastReadAt it read as `seen`: the query takes the messages of the
\* conversation created after it (all of them if it is null), the filter
\* keeps those of other senders.
UnreadMessages(u, cv, seen) ==
    { m \in DOMAIN messages :
        /\ messages[m].conversationId = cv
        /\ seen = Null \/ messages[m].createdAt > seen
        /\ messages[m].senderId # u }

\* GET /chat/conversations: findMany reads the caller's participant rows.
GetConversations(u) ==
    /\ CanSpawn
    /\ tasks' = tasks \cup
         {[Task("get:unread", 0, u, NoConv, 0, "-", <<>>, Null)
             EXCEPT !.seen = [cv \in UserConversations(u) |-> lastReadAt[<<cv, u>>]]]}
    /\ out' = <<>>
    /\ UNCHANGED <<storeVars, sockVars, now, histVars>>

\* The message queries of Promise.all return; 200 with one unreadCount per
\* conversation.
GetConversationsCount(t) ==
    /\ t \in tasks /\ t.k = "get:unread"
    /\ tasks' = tasks \ {t}
    /\ out' = <<[Http(t.user, 200, "") EXCEPT
                   !.unread = [cv \in DOMAIN t.seen |->
                                 Cardinality(UnreadMessages(t.user, cv, t.seen[cv]))]]>>
    /\ UNCHANGED <<storeVars, sockVars, now, histVars>>

\* -------------------------------------------------------- edit and delete
MayModifyAnyone(m, u) == TRUE

\* The ownership check of PUT and DELETE /chat/messages/:messageId.
MayModify(m, u) == messages[m].senderId = u

\* PUT /chat/messages/:messageId, up to the update it issues.
PutMessage(u, m, content) ==
    /\ IF ContentMissing(content)
       THEN /\ out' = <<Http(u, 400, "Message content is required")>>
            /\ tasks' = tasks
       ELSE IF m \notin DOMAIN messages
       THEN /\ out' = <<Http(u, 404, "Message not found")>>
            /\ tasks' = tasks
       ELSE IF ~MayModify(m, u)
       THEN /\ out' = <<Http(u, 403, "Not authorized to edit this message")>>
            /\ tasks' = tasks
       ELSE /\ CanSpawn
            /\ out' = <<>>
            /\ tasks' = tasks \cup {Task("put:update", 0, u, NoConv, m, "-", Trim(content), now)}
    /\ UNCHANGED <<storeVars, sockVars, now, histVars>>

\* The update executes (on no row, if the message is gone by now); 200.
PutMessageUpdate(t) ==
    /\ t \in tasks /\ t.k = "put:update"
    /\ messages' = [id \in DOMAIN messages |->
                      IF id = t.msg
                      THEN [messages[id] EXCEPT !.content = t.content, !.isEdited = TRUE,
                                                !.updatedAt = t.t]
                      ELSE messages[id]]
    /\ tasks' = tasks \ {t}
    /\ out' = <<[Http(t.user, 200, "") EXCEPT !.msg = t.msg]>>
    /\ prevRead' = NoRead
    /\ UNCHANGED <<conversations, participants, lastReadAt, nextId, isOnline, sockVars, now,
                   onlineCount, offlineCount, lastDisc>>

\* DELETE /chat/messages/:messageId, up to the delete it issues.
DeleteMessage(u, m) ==
    /\ IF m \notin DOMAIN messages
       THEN /\ out' = <<Http(u, 404, "Message not found")>>
            /\ tasks' = tasks
       ELSE IF ~MayModify(m, u)
       THEN /\ out' = <<Http(u, 403, "Not authorized to delete this message")>>
            /\ tasks' = tasks
       ELSE /\ CanSpawn
            /\ out' = <<>>
            /\ tasks' = tasks \cup {Task("delete:delete", 0, u, NoConv, m, "-", <<>>, Null)}
    /\ UNCHANGED <<storeVars, sockVars, now, histVars>>

\* The delete executes; 200.
DeleteMessageDelete(t) ==
    /\ t \in tasks /\ t.k = "delete:delete"
    /\ messages' = [id \in DOMAIN messages \ {t.msg} |-> messages[id]]
    /\ tasks' = tasks \ {t}
    /\ out' = <<Http(t.user, 200, "Message deleted successfully")>>
    /\ prevRead' = NoRead
    /\ UNCHANGED <<conversations, participants, lastReadAt, nextId, isOnline, sockVars, now,
                   onlineCount, offlineCount, lastDisc>>

\* ----------------------------------------------------------- store failures
\* A store call that throws (the store is down, a query times out).  The
\* socket handlers and the routes wrap their bodies in try/catch; the
\* connection handler does not.

\* console.error in a catch block.
LogEntry(text) == [Blank EXCEPT !.ev = "log", !.text = text]

\* socket.emit on a socket that may have closed while its handler waited.
ErrorReply(c, text) == [ErrorEvent(c, text) EXCEPT !.to = {c} \cap Connected]

\* io.on('connection'): db.update(users) throws.  The async handler rejects,
\* nothing catches it, and the lines after the await never run: no room is
\* joined and no event handler is registered on the socket.
ConnectionSetOnlineFail(c) ==
    /\ pc[c] = "update"
    /\ pc' = [pc EXCEPT ![c] = "failed"]
    /\ out' = <<>>
    /\ UNCHANGED <<storeVars, st, connUser, rooms, tasks, now, histVars>>

\* io.on('connection'): findMany throws, after the user was set online.
ConnectionJoinRoomsFail(c) ==
    /\ pc[c] = "query"
    /\ pc' = [pc EXCEPT ![c] = "failed"]
    /\ out' = <<>>
    /\ UNCHANGED <<storeVars, st, connUser, rooms, tasks, now, histVars>>

\* conversation:join: findFirst throws; the catch block answers the socket.
ConversationJoinFail(c, cv) ==
    /\ Listening(c)
    /\ out' = <<LogEntry("Join conversation error:"),
                ErrorReply(c, "Failed to join conversation")>>
    /\ UNCHANGED <<storeVars, sockVars, tasks, now, histVars>>

\* message:send: the participant lookup throws.
MessageSendFail(c, cv, content) ==
    /\ Listening(c)
    /\ ~ContentMissing(content)
    /\ out' = <<LogEntry("Send message error:"), ErrorReply(c, "Failed to send message")>>
    /\ UNCHANGED <<storeVars, sockVars, tasks, now, histVars>>

\* message:send: the insert throws.
MessageSendInsertFail(t) ==
    /\ t \in tasks /\ t.k = "send:insert"
    /\ tasks' = tasks \ {t}
    /\ out' = <<LogEntry("Send message error:"),
                ErrorReply(t.conn, "Failed to send message")>>
    /\ UNCHANGED <<storeVars, sockVars, now, histVars>>

\* message:send: the sender lookup throws, after the row was inserted.
MessageSendEmitFail(t) ==
    /\ t \in tasks /\ t.k = "send:emit"
    /\ tasks' = tasks \ {t}
    /\ out' = <<LogEntry("Send message error:"),
                ErrorReply(t.conn, "Failed to send message")>>
    /\ UNCHANGED <<storeVars, sockVars, now, histVars>>

\* message:status: the update throws; the catch block only logs.
MessageStatusFail(c, m, status) ==
    /\ Listening(c)
    /\ out' = <<LogEntry("Message status update error:")>>
    /\ UNCHANGED <<storeVars, sockVars, tasks, now, histVars>>

\* message:status: the read-back throws, after the status was written.
MessageStatusEmitFail(t) ==
    /\ t \in tasks /\ t.k = "status:emit"
    /\ tasks' = tasks \ {t}
    /\ out' = <<LogEntry("Message status update error:")>>
    /\ UNCHANGED <<storeVars, sockVars, now, histVars>>

\* POST .../read: the participant update throws; 500.
PostReadSetLastReadFail(t) ==
    /\ t \in tasks /\ t.k = "read:participant"
    /\ tasks' = tasks \ {t}
    /\ out' = <<LogEntry("Mark as read error:"), Http(t.user, 500, "Internal server error")>>
    /\ prevRead' = NoRead
    /\ UNCHANGED <<storeVars, sockVars, now, onlineCount, offlineCount, lastDisc>>

\* POST .../read: the bulk update throws, after lastReadAt was written; 500.
PostReadSetMessagesFail(t) ==
    /\ t \in tasks /\ t.k = "read:messages"
    /\ tasks' = tasks \ {t}
    /\ out' = <<LogEntry("Mark as read error:"), Http(t.user, 500, "Internal server error")>>
    /\ prevRead' = NoRead
    /\ UNCHANGED <<storeVars, sockVars, now, onlineCount, offlineCount, lastDisc>>

\* ------------------------------------------------------ REST authentication
\* authenticate: a Bearer token that the identity provider verifies.
HasIdentity(tok) == tok # NoToken /\ tok \in Users

\* authenticate answers 401 and does not call next(): no route runs.
RestUnauthorized(tok) ==
    /\ out' = <<Http(NoUser, 401, IF tok = NoToken
                                  THEN "No authorization token provided"
                                  ELSE "Invalid or expired token")>>
    /\ UNCHANGED <<storeVars, sockVars, tasks, now, histVars>>

\* router.use(authenticate) in front of POST /chat/conversations
AuthenticatePostConversations(tok, participantIds) ==
    IF HasIdentity(tok) THEN PostConversations(tok, participantIds)
    ELSE RestUnauthorized(tok)

\* ------------------------------------------------------- specifications
NextRooms ==
    \/ \E c \in Conns, tok \in Tokens : Handshake(c, tok)
    \/ \E c \in Conns : ConnectionSetOnline(c)
    \/ \E c \in Conns : ConnectionJoinRooms(c)
    \/ \E c \in Conns : Disconnect(c)
    \/ \E c \in Conns : DisconnectSetOffline(c)
    \/ \E c \in Conns, cv \in Convs : ConversationJoin(c, cv)
    \/ \E c \in Conns, cv \in Convs : ConversationLeave(c, cv)
    \/ \E u \in Users, ps \in SUBSET Users : PostConversations(u, ps)

SpecRooms == Init /\ [][NextRooms]_vars

NextPresence ==
    \/ Tick
    \/ \E c \in Conns, tok \in Tokens : Handshake(c, tok)
    \/ \E c \in Conns : ConnectionSetOnline(c)
    \/ \E c \in Conns : ConnectionJoinRooms(c)
    \/ \E c \in Conns : Disconnect(c)
    \/ \E c \in Conns : DisconnectSetOffline(c)

SpecPresence == Init /\ [][NextPresence]_vars

\* The same, with every store call a handler awaits returning in the end;
\* nothing obliges a client to connect or to disconnect.
SpecPresenceLive ==
    /\ Init /\ [][NextPresence]_vars
    /\ \A c \in Conns : /\ WF_vars(ConnectionSetOnline(c))
                        /\ WF_vars(ConnectionJoinRooms(c))
                        /\ WF_vars(DisconnectSetOffline(c))

\* Typing while connections come and go.
NextTyping ==
    \/ \E c \in Conns, tok \in Tokens : Handshake(c, tok)
    \/ \E c \in Conns : ConnectionSetOnline(c)
    \/ \E c \in Conns : ConnectionJoinRooms(c)
    \/ \E c \in Conns : Disconnect(c)
    \/ \E c \in Conns : DisconnectSetOffline(c)
    \/ \E c \in Conns, cv \in Convs : TypingStart(c, cv)
    \/ \E c \in Conns, cv \in Convs : TypingStop(c, cv)

SpecTyping == Init /\ [][NextTyping]_vars

\* Handshakes and REST requests with every kind of token.
NextAuth ==
    \/ \E c \in Conns, tok \in Tokens : Handshake(c, tok)
    \/ \E c \in Conns : ConnectionSetOnline(c)
    \/ \E c \in Conns : ConnectionJoinRooms(c)
    \/ \E c \in Conns, cv \in Convs : ConversationJoin(c, cv)
    \/ \E tok \in Tokens, ps \in SUBSET Users : AuthenticatePostConversations(tok, ps)

SpecAuth == Init /\ [][NextAuth]_vars

\* Connections set up and joining rooms over a store whose calls may throw.
NextRecover ==
    \/ \E c \in Conns, tok \in Tokens : Handshake(c, tok)
    \/ \E c \in Conns : ConnectionSetOnline(c)
    \/ \E c \in Conns : ConnectionSetOnlineFail(c)
    \/ \E c \in Conns : ConnectionJoinRooms(c)
    \/ \E c \in Conns : ConnectionJoinRoomsFail(c)
    \/ \E c \in Conns, cv \in Convs : ConversationJoin(c, cv)
    \/ \E c \in Conns, cv \in Convs : ConversationJoinFail(c, cv)

SpecRecover == Init /\ [][NextRecover]_vars

\* Joins, sends, status requests and markRead on conversation c1 over a store
\* whose calls may throw.
NextFailure ==
    \/ \E c \in Conns : ConversationJoin(c, "c1")
    \/ \E c \in Conns : ConversationJoinFail(c, "c1")
    \/ \E c \in Conns, content \in Contents : MessageSend(c, "c1", content)
    \/ \E c \in Conns, content \in Contents : MessageSendFail(c, "c1", content)
    \/ \E t \in tasks : MessageSendInsert(t)
    \/ \E t \in tasks : MessageSendInsertFail(t)
    \/ \E t \in tasks : MessageSendEmit(t)
    \/ \E t \in tasks : MessageSendEmitFail(t)
    \/ \E c \in Conns, m \in 1..nextId, status \in StatusInputs : MessageStatus(c, m, status)
    \/ \E c \in Conns, m \in 1..nextId, status \in StatusInputs : MessageStatusFail(c, m, status)
    \/ \E t \in tasks : MessageStatusEmit(t)
    \/ \E t \in tasks : MessageStatusEmitFail(t)
    \/ \E u \in Users : PostRead(u, "c1")
    \/ \E t \in tasks : PostReadSetLastRead(t)
    \/ \E t \in tasks : PostReadSetLastReadFail(t)
    \/ \E t \in tasks : PostReadSetMessages(t)
    \/ \E t \in tasks : PostReadSetMessagesFail(t)

SpecFailure == InitReady /\ [][NextFailure]_vars

NextSend ==
    \/ \E c \in Conns, cv \in Convs, content \in Contents : MessageSend(c, cv, content)
    \/ \E t \in tasks : MessageSendInsert(t)
    \/ \E t \in tasks : MessageSendEmit(t)
    \/ \E u \in Users, cv \in Convs, content \in Contents : PostMessage(u, cv, content)
    \/ \E t \in tasks : PostMessageInsert(t)
    \/ \E t \in tasks : PostMessageTouch(t)
    \/ \E t \in tasks : PostMessageEmit(t)

SpecSend == InitReady /\ [][NextSend]_vars

\* Socket sends while conversations are created; no socket leaves a room or
\* closes.
NextCreate ==
    \/ \E u \in Users, ps \in SUBSET Users : PostConversations(u, ps)
    \/ \E c \in Conns, cv \in Convs, content \in Contents : MessageSend(c, cv, content)
    \/ \E t \in tasks : MessageSendInsert(t)
    \/ \E t \in tasks : MessageSendEmit(t)

SpecCreate == InitReady /\ [][NextCreate]_vars

\* Sends and edits.
NextContent ==
    \/ NextSend
    \/ \E u \in Users, m \in MsgIds, content \in Contents : PutMessage(u, m, content)
    \/ \E t \in tasks : PutMessageUpdate(t)

SpecContent == InitReady /\ [][NextContent]_vars

\* Sends while connections leave rooms.
NextFanout ==
    \/ NextSend
    \/ \E c \in Conns, cv \in Convs : ConversationLeave(c, cv)

SpecFanout == InitReady /\ [][NextFanout]_vars

\* Sends and status requests over the socket.  A message id is a random uuid
\* the insert draws: a client names an id the server handed out, or one (0)
\* that no message ever carries.
NextPersist ==
    \/ \E c \in Conns, cv \in Convs, content \in Contents : MessageSend(c, cv, content)
    \/ \E t \in tasks : MessageSendInsert(t)
    \/ \E t \in tasks : MessageSendEmit(t)
    \/ \E c \in Conns, m \in 0..nextId, status \in StatusInputs : MessageStatus(c, m, status)
    \/ \E t \in tasks : MessageStatusEmit(t)

SpecPersist == InitReady /\ [][NextPersist]_vars

\* Every action of the server.
Next ==
    \/ Tick
    \/ \E c \in Conns, tok \in Tokens : Handshake(c, tok)
    \/ \E c \in Conns : ConnectionSetOnline(c)
    \/ \E c \in Conns : ConnectionJoinRooms(c)
    \/ \E c \in Conns : Disconnect(c)
    \/ \E c \in Conns : DisconnectSetOffline(c)
    \/ \E c \in Conns, cv \in Convs : ConversationJoin(c, cv)
    \/ \E c \in Conns, cv \in Convs : ConversationLeave(c, cv)
    \/ \E u \in Users, ps \in SUBSET Users : PostConversations(u, ps)
    \/ \E c \in Conns, cv \in Convs : TypingStart(c, cv)
    \/ \E c \in Conns, cv \in Convs : TypingStop(c, cv)
    \/ \E c \in Conns, cv \in Convs, content \in Contents : MessageSend(c, cv, content)
    \/ \E t \in tasks : MessageSendInsert(t)
    \/ \E t \in tasks : MessageSendEmit(t)
    \/ \E u \in Users, cv \in Convs, content \in Contents : PostMessage(u, cv, content)
    \/ \E t \in tasks : PostMessageInsert(t)
    \/ \E t \in tasks : PostMessageTouch(t)
    \/ \E t \in tasks : PostMessageEmit(t)
    \/ \E c \in Conns, m \in MsgIds, status \in StatusInputs : MessageStatus(c, m, status)
    \/ \E t \in tasks : MessageStatusEmit(t)
    \/ \E u \in Users, cv \in Convs : PostRead(u, cv)
    \/ \E t \in tasks : PostReadSetLastRead(t)
    \/ \E t \in tasks : PostReadSetMessages(t)
    \/ \E u \in Users : GetConversations(u)
    \/ \E t \in tasks : GetConversationsCount(t)
    \/ \E u \in Users, m \in MsgIds, content \in Contents : PutMessage(u, m, content)
    \/ \E t \in tasks : PutMessageUpdate(t)
    \/ \E u \in Users, m \in MsgIds : DeleteMessage(u, m)
    \/ \E t \in tasks : DeleteMessageDelete(t)
    \/ \E c \in Conns : ConnectionSetOnlineFail(c)
    \/ \E c \in Conns : ConnectionJoinRoomsFail(c)
    \/ \E c \in Conns, cv \in Convs : ConversationJoinFail(c, cv)
    \/ \E c \in Conns, cv \in Convs, content \in Contents : MessageSendFail(c, cv, content)
    \/ \E t \in tasks : MessageSendInsertFail(t)
    \/ \E t \in tasks : MessageSendEmitFail(t)
    \/ \E c \in Conns, m \in MsgIds, status \in StatusInputs : MessageStatusFail(c, m, status)
    \/ \E t \in tasks : MessageStatusEmitFail(t)
    \/ \E t \in tasks : PostReadSetLastReadFail(t)
    \/ \E t \in tasks : PostReadSetMessagesFail(t)

Spec == Init /\ [][Next]_vars

\* The specifications below each take the actions one group of properties is
\* about, so that TLC explores them exhaustively; the message handlers start
\* from a store and sockets that Spec reaches.

\* A store with messages in it: c1 holds message 1 of u1 and, when the bound
\* allows, message 2 of u2, both as inserted ("sent"); every socket is
\* connected.
SeededMessages ==
    [id \in 1..(IF MaxMsgs >= 2 THEN 2 ELSE 1) |->
        [conversationId |-> "c1", senderId |-> UserOf(id), content |-> <<"h">>,
         status |-> "sent", isEdited |-> FALSE, createdAt |-> 0, updatedAt |-> 0]]

InitSeeded ==
    /\ conversations = [cv \in Convs |-> IF cv \in {"c1", "c2"} THEN 0 ELSE Null]
    /\ participants = { <<"c1", u>> : u \in Users } \cup { <<"c2", "u2">> }
    /\ lastReadAt = [p \in Convs \X Users |-> Null]
    /\ messages = SeededMessages
    /\ nextId = Len(SeededMessages)
    /\ isOnline = [u \in Users |-> \E c \in Conns : UserOf(c) = u]
    /\ st = [c \in Conns |-> "open"]
    /\ connUser = [c \in Conns |-> UserOf(c)]
    /\ pc = [c \in Conns |-> "ready"]
    /\ rooms = [c \in Conns |-> UserConversations(UserOf(c))]
    /\ tasks = {}
    /\ now = 0
    /\ out = <<>>
    /\ prevRead = NoRead
    /\ onlineCount = [u \in Users |-> Cardinality({ c \in Conns : UserOf(c) = u })]
    /\ offlineCount = [u \in Users |-> 0]
    /\ lastDisc = [u \in Users |-> Null]

NextStatus ==
    \/ \E c \in Conns, m \in MsgIds, status \in StatusInputs : MessageStatus(c, m, status)
    \/ \E t \in tasks : MessageStatusEmit(t)
    \/ \E u \in Users, cv \in Convs : PostRead(u, cv)
    \/ \E t \in tasks : PostReadSetLastRead(t)
    \/ \E t \in tasks : PostReadSetMessages(t)

SpecStatus == InitSeeded /\ [][NextStatus]_vars

\* A store as sends and a message:status leave it: in c1 message 1 of u1
\* (sent) and message 2 of u2 (delivered), in c2 message 3 of u2 (sent).
InboxMessage(cv, u, status) ==
    [conversationId |-> cv, senderId |-> u, content |-> <<"h">>, status |-> status,
     isEdited |-> FALSE, createdAt |-> 0, updatedAt |-> 0]

InboxMessages ==
    <<InboxMessage("c1", "u1", "sent"), InboxMessage("c1", "u2", "delivered"),
      InboxMessage("c2", "u2", "sent")>>

InitInbox ==
    /\ conversations = [cv \in Convs |-> IF cv \in {"c1", "c2"} THEN 0 ELSE Null]
    /\ participants = { <<"c1", u>> : u \in Users } \cup { <<"c2", "u2">> }
    /\ lastReadAt = [p \in Convs \X Users |-> Null]
    /\ messages = InboxMessages
    /\ nextId = Len(InboxMessages)
    /\ isOnline = [u \in Users |-> \E c \in Conns : UserOf(c) = u]
    /\ st = [c \in Conns |-> "open"]
    /\ connUser = [c \in Conns |-> UserOf(c)]
    /\ pc = [c \in Conns |-> "ready"]
    /\ rooms = [c \in Conns |-> UserConversations(UserOf(c))]
    /\ tasks = {}
    /\ now = 0
    /\ out = <<>>
    /\ prevRead = NoRead
    /\ onlineCount = [u \in Users |-> Cardinality({ c \in Conns : UserOf(c) = u })]
    /\ offlineCount = [u \in Users |-> 0]
    /\ lastDisc = [u \in Users |-> Null]

\* POST .../read on that store.
NextInbox ==
    \/ \E u \in Users, cv \in Convs : PostRead(u, cv)
    \/ \E t \in tasks : PostReadSetLastRead(t)
    \/ \E t \in tasks : PostReadSetMessages(t)

SpecInbox == InitInbox /\ [][NextInbox]_vars

\* message:status on that store, for the ids of its messages.
NextInboxStatus ==
    \/ \E c \in Conns, m \in DOMAIN messages, status \in StatusInputs :
          MessageStatus(c, m, status)
    \/ \E t \in tasks : MessageStatusEmit(t)

SpecInboxStatus == InitInbox /\ [][NextInboxStatus]_vars

\* A store with a history, at time 1: c1 holds message 1 of u1 (created at 0)
\* and message 2 of u2 (created at 1), c2 holds message 3 of u2 (created at
\* 0); u1 marked c1 as read at time 0, nobody else has marked anything.
InitHistory ==
    /\ conversations = [cv \in Convs |-> IF cv \in {"c1", "c2"} THEN 0 ELSE Null]
    /\ participants = { <<"c1", u>> : u \in Users } \cup { <<"c2", "u2">> }
    /\ lastReadAt = [p \in Convs \X Users |-> IF p = <<"c1", "u1">> THEN 0 ELSE Null]
    /\ messages = <<InboxMessage("c1", "u1", "sent"),
                    [InboxMessage("c1", "u2", "sent") EXCEPT !.createdAt = 1, !.updatedAt = 1],
                    InboxMessage("c2", "u2", "sent")>>
    /\ nextId = 3
    /\ isOnline = [u \in Users |-> \E c \in Conns : UserOf(c) = u]
    /\ st = [c \in Conns |-> "open"]
    /\ connUser = [c \in Conns |-> UserOf(c)]
    /\ pc = [c \in Conns |-> "ready"]
    /\ rooms = [c \in Conns |-> UserConversations(UserOf(c))]
    /\ tasks = {}
    /\ now = 1
    /\ out = <<>>
    /\ prevRead = NoRead
    /\ onlineCount = [u \in Users |-> Cardinality({ c \in Conns : UserOf(c) = u })]
    /\ offlineCount = [u \in Users |-> 0]
    /\ lastDisc = [u \in Users |-> Null]

\* Unread counts and markRead on that store while the clock runs.
NextCount ==
    \/ Tick
    \/ \E u \in Users : GetConversations(u)
    \/ \E t \in tasks : GetConversationsCount(t)
    \/ \E u \in Users, cv \in Convs : PostRead(u, cv)
    \/ \E t \in tasks : PostReadSetLastRead(t)
    \/ \E t \in tasks : PostReadSetMessages(t)

SpecCount == InitHistory /\ [][NextCount]_vars

NextRead ==
    \/ Tick
    \/ \E u \in Users, cv \in Convs : PostRead(u, cv)
    \/ \E t \in tasks : PostReadSetLastRead(t)
    \/ \E t \in tasks : PostReadSetMessages(t)

SpecRead == InitSeeded /\ [][NextRead]_vars

\* Messages sent over the socket to conversation c1 and c1 marked as read
\* while the clock runs, from an empty store.
NextUnread ==
    \/ Tick
    \/ \E c \in Conns, content \in Contents : MessageSend(c, "c1", content)
    \/ \E t \in tasks : MessageSendInsert(t)
    \/ \E t \in tasks : MessageSendEmit(t)
    \/ \E u \in Users : PostRead(u, "c1")
    \/ \E t \in tasks : PostReadSetLastRead(t)
    \/ \E t \in tasks : PostReadSetMessages(t)

SpecUnread == InitReady /\ [][NextUnread]_vars

NextEdit ==
    \/ Tick
    \/ \E u \in Users, m \in MsgIds, content \in Contents : PutMessage(u, m, content)
    \/ \E t \in tasks : PutMessageUpdate(t)
    \/ \E u \in Users, m \in MsgIds : DeleteMessage(u, m)
    \/ \E t \in tasks : DeleteMessageDelete(t)

SpecEdit == InitSeeded /\ [][NextEdit]_vars

\* ------------------------------------------------------------- properties
\* Whether the output `o` of a step holds event `ev` about user `u`.
Emitted(o, ev, u) == \E i \in DOMAIN o : o[i].ev = ev /\ o[i].user = u

\* C1: a connection is never held in the room of a conversation in which its
\* user has no participant row, over every sequence of connects,
\* conversation:join and conversation:leave (a room left, and a conversation
\* created after the connection was set up, are rows without a room).
C1_RoomsWithinParticipantRows ==
    \A c \in Conns : \A cv \in rooms[c] : IsParticipant(cv, connUser[c])

\* C1's case: a listening connection was just let into a room, holds fewer
\* rooms than its user has participant rows (one was left, or was created
\* after the connection was set up), and a conversation
\* exists that its user is no participant of.
C1_Witness ==
    \E c \in Conns, cv \in Convs :
        /\ Listening(c)
        /\ conversations[cv] # Null
        /\ ~IsParticipant(cv, connUser[c])
        /\ rooms[c] # {} /\ rooms[c] # UserConversations(connUser[c])
        /\ Len(out) = 1 /\ out[1].ev = "conversation:joined" /\ out[1].to = {c}

\* C6: user:offline is never broadcast for a user who still has an open
\* connection.
C6_NoOfflineWhileOtherConnectionOpen ==
    \A u \in Users : Emitted(out, "user:offline", u) => LiveConns(u) = {}

\* C7: once all connections of a user have closed, user:offline has been
\* broadcast at most once for that user, and it is not broadcast in the very
\* instant the last connection closed (a grace window comes first).
C7_OfflineOnceAfterGrace ==
    \A u \in Users :
        LiveConns(u) = {} =>
            /\ offlineCount[u] <= 1
            /\ Emitted(out, "user:offline", u) => now > lastDisc[u]

\* C8: when a user's last connection has closed and the user is connected
\* again with no time elapsed (within any grace window), neither user:offline
\* nor a user:online beyond the user's first is broadcast for that user.
C8_NoPresenceEventsOnQuickReconnect ==
    \A u \in Users :
        (lastDisc[u] = now /\ LiveConns(u) # {}) =>
            /\ Emitted(out, "user:online", u) => onlineCount[u] <= 1
            /\ ~Emitted(out, "user:offline", u)

\* C9: a connection handler that completes for a user who has another open
\* connection broadcasts no user:online.
C9_OnlineOnlyOnFirstConnection ==
    [][\A c \in Conns :
          (ConnectionJoinRooms(c) /\ LiveConns(connUser[c]) \ {c} # {})
              => ~Emitted(out', "user:online", connUser[c])]_vars

NotAParticipantText == "Not a participant of this conversation"

\* C2: a send (socket or REST) by a user with no participant row in the
\* conversation inserts nothing, leaves no handler running that could insert
\* or broadcast, and produces exactly one output: the rejection, to the
\* requester alone; for a send that carries content the rejection is the
\* not-a-participant one.
C2_NonParticipantSendRejected ==
    [][/\ \A c \in Conns, cv \in Convs, content \in Contents :
            (MessageSend(c, cv, content) /\ ~IsParticipant(cv, connUser[c])) =>
                /\ messages' = messages /\ nextId' = nextId /\ tasks' = tasks
                /\ Len(out') = 1 /\ out'[1].ev = "error" /\ out'[1].to = {c}
                /\ ~ContentMissing(content) => out'[1].text = NotAParticipantText
       /\ \A u \in Users, cv \in Convs, content \in Contents :
            (PostMessage(u, cv, content) /\ ~IsParticipant(cv, u)) =>
                /\ messages' = messages /\ nextId' = nextId /\ tasks' = tasks
                /\ Len(out') = 1 /\ out'[1].ev = "http" /\ out'[1].user = u
                /\ out'[1].code \in {400, 403}
                /\ ~ContentMissing(content) =>
                      out'[1].code = 403 /\ out'[1].text = NotAParticipantText
      ]_vars

\* C2's case: the last step answered a socket of a user who is outside an
\* existing conversation with the not-a-participant error, while an accepted
\* send of another handler had its row inserted.
C2_Witness ==
    \E c \in Conns, cv \in Convs :
        /\ conversations[cv] # Null /\ ~IsParticipant(cv, connUser[c])
        /\ out = <<ErrorEvent(c, NotAParticipantText)>>
        /\ DOMAIN messages # {}

\* C3: no step moves the stored status of a message to an earlier value of
\* sent -> delivered -> read.
C3_StatusNeverRegresses ==
    [][\A m \in DOMAIN messages :
          m \in DOMAIN messages' =>
              Rank(messages'[m].status) >= Rank(messages[m].status)]_vars

\* C4: a message:status request whose status is equal to or earlier than the
\* stored one leaves the stored status as it is, and no message:status:update
\* is broadcast for it.
C4_EarlierStatusIsNoOp ==
    [][/\ \A c \in Conns, m \in DOMAIN messages, status \in StatusInputs :
            (MessageStatus(c, m, status) /\ Rank(status) <= Rank(messages[m].status)) =>
                messages'[m].status = messages[m].status
       /\ \A t \in tasks :
            (MessageStatusEmit(t) /\ t.prior # "-" /\ Rank(t.status) <= Rank(t.prior)) =>
                \A i \in DOMAIN out' : out'[i].ev # "message:status:update"
      ]_vars

\* C5: a mark-read call that starts after the same user's mark-read of the
\* same conversation has completed, with no message written in between,
\* leaves lastReadAt as the first call left it, updates no message and
\* broadcasts no message:status:update.
C5_MarkReadIdempotent ==
    [][\A t \in tasks :
          (/\ PostReadSetMessages(t)
           /\ prevRead.phase = "again"
           /\ prevRead.user = t.user /\ prevRead.conv = t.conv) =>
              /\ lastReadAt[<<t.conv, t.user>>] = prevRead.at
              /\ out'[Len(out')].count = 0
              /\ \A i \in DOMAIN out' : out'[i].ev # "message:status:update"]_vars

\* C10: an edit or a delete of an existing message by a user who is not its
\* sender changes no message row and leaves no handler running that could;
\* the request is answered 403, unless it is an edit without content, which is
\* answered 400 before the message is looked at.
C10_OnlySenderEditsOrDeletes ==
    [][/\ \A u \in Users, m \in DOMAIN messages, content \in Contents :
            (PutMessage(u, m, content) /\ messages[m].senderId # u) =>
                /\ messages' = messages /\ tasks' = tasks
                /\ Len(out') = 1 /\ out'[1].ev = "http" /\ out'[1].user = u
                /\ out'[1].code = IF ContentMissing(content) THEN 400 ELSE 403
       /\ \A u \in Users, m \in DOMAIN messages :
            (DeleteMessage(u, m) /\ messages[m].senderId # u) =>
                /\ messages' = messages /\ tasks' = tasks
                /\ out' = <<Http(u, 403, "Not authorized to delete this message")>>
      ]_vars

\* C10's case: the last step refused an edit of a message that exists, by a
\* user who did not send it, after another message had been edited by its
\* sender.
C10_Witness ==
    \E u \in Users, m \in DOMAIN messages :
        /\ messages[m].senderId # u
        /\ out = <<Http(u, 403, "Not authorized to edit this message")>>
        /\ \E e \in DOMAIN messages : messages[e].isEdited

\* The message:new events of an output.
NewEvents(o) == { i \in DOMAIN o : o[i].ev = "message:new" }

\* C11: when a send by a participant completes, on either path, exactly one
\* message:new goes out; it is delivered to every open connection that is in
\* the conversation's room at that moment, the sender's own included, and to
\* no other; it carries the stored row: its id, status "sent" and the
\* submitted content, trimmed.  The content a handler holds for the insert is
\* the trimmed form of what was submitted.
C11_SendReachesWholeRoom ==
    [][/\ \A t \in tasks :
            (MessageSendEmit(t) \/ PostMessageEmit(t)) =>
                /\ Cardinality(NewEvents(out')) = 1
                /\ \A i \in NewEvents(out') :
                     /\ out'[i].to = { c \in Conns : st[c] = "open" /\ t.conv \in rooms[c] }
                     /\ \A c \in Conns :
                          (st[c] = "open" /\ connUser[c] = t.user /\ t.conv \in rooms[c])
                              => c \in out'[i].to
                     /\ out'[i].msg = t.msg
                     /\ out'[i].conv = t.conv
                     /\ out'[i].status = "sent"
                     /\ t.msg \in DOMAIN messages
                     /\ out'[i].content = messages[t.msg].content
                     /\ Trim(out'[i].content) = out'[i].content
       /\ (\E t \in tasks' \ tasks : t.k \in {"send:insert", "post:insert"}) =>
            /\ \A c \in Conns, cv \in Convs, content \in Contents :
                 MessageSend(c, cv, content) =>
                     \A t \in tasks' \ tasks : t.content = Trim(content)
            /\ \A u \in Users, cv \in Convs, content \in Contents :
                 PostMessage(u, cv, content) =>
                     \A t \in tasks' \ tasks : t.content = Trim(content)
      ]_vars

\* C11's case: a send over the socket completed; its message:new went to the
\* sender's own connection and to another one, while a third party's room
\* membership had been given up by some connection.
C11_Witness ==
    /\ Len(out) = 2
    /\ out[1].ev = "message:new"
    /\ \E c \in out[1].to : connUser[c] = out[1].user
    /\ \E c \in out[1].to : connUser[c] # out[1].user
    /\ out[1].msg \in DOMAIN messages
    /\ \E c \in Conns : rooms[c] # UserConversations(connUser[c])

\* C12: when a markRead by a participant of the conversation completes, every
\* message the call moved to read is announced by exactly one
\* message:status:update {messageId, status "read", updatedBy the caller},
\* delivered to every open connection in the conversation's room.
C12_MarkReadBroadcastsRead ==
    [][\A t \in tasks :
          (PostReadSetMessages(t) /\ IsParticipant(t.conv, t.user)) =>
              \A m \in DOMAIN messages :
                  (messages[m].status # "read" /\ messages'[m].status = "read") =>
                      Cardinality({ i \in DOMAIN out' :
                          /\ out'[i].ev = "message:status:update"
                          /\ out'[i].msg = m
                          /\ out'[i].status = "read"
                          /\ out'[i].user = t.user
                          /\ out'[i].to = { c \in Conns : st[c] = "open" /\ t.conv \in rooms[c] }
                        }) = 1
      ]_vars

\* C13: when a markRead by a participant completes and no message of the
\* conversation was created after the call read the clock, the caller's
\* unread count for the conversation, computed on the store as the call
\* leaves it, is 0.
C13_UnreadZeroAfterMarkRead ==
    [][\A t \in tasks :
          (/\ PostReadSetMessages(t)
           /\ IsParticipant(t.conv, t.user)
           /\ \A m \in DOMAIN messages :
                messages[m].conversationId = t.conv => messages[m].createdAt <= t.t)
              => UnreadCount(t.user, t.conv)' = 0
      ]_vars

\* C14: the bulk update of markRead(user, conversation) sets to read every
\* message of that conversation that another user sent and that is not read
\* yet, and changes nothing else: the caller's own messages, the messages of
\* other conversations and every other field keep their values, and no
\* message appears or disappears.
C14_MarkReadFrame ==
    [][\A t \in tasks :
          PostReadSetMessages(t) =>
              /\ DOMAIN messages' = DOMAIN messages
              /\ \A m \in DOMAIN messages :
                   messages'[m] =
                       IF messages[m].conversationId = t.conv /\ messages[m].senderId # t.user
                       THEN [messages[m] EXCEPT !.status = "read"]
                       ELSE messages[m]
      ]_vars

\* C14's case: a markRead just completed that moved a message of another
\* user to read, while the store holds an unread message of the caller in the
\* same conversation and an unread message in another conversation.
C14_Witness ==
    /\ Len(out) = 1
    /\ out[1].ev = "http" /\ out[1].code = 200 /\ out[1].count >= 1
    /\ \E m \in DOMAIN messages :
          /\ messages[m].conversationId = out[1].conv
          /\ messages[m].senderId # out[1].user
          /\ messages[m].status = "read"
    /\ \E m \in DOMAIN messages :
          /\ messages[m].conversationId = out[1].conv
          /\ messages[m].senderId = out[1].user
          /\ messages[m].status # "read"
    /\ \E m \in DOMAIN messages :
          /\ messages[m].conversationId # out[1].conv
          /\ messages[m].status # "read"

\* C15: a message:new is broadcast only for a row that an earlier step
\* inserted, and the store still shows that row, with the content, sender and
\* conversation the event carries, once the event is out; a
\* message:status:update is broadcast only by a request whose update had
\* found the row in an earlier step, and a request whose update found no row
\* broadcasts nothing.
C15_PersistThenBroadcast ==
    [][/\ \A i \in DOMAIN out' :
            out'[i].ev = "message:new" =>
                /\ out'[i].msg \in DOMAIN messages
                /\ out'[i].msg \in DOMAIN messages'
                /\ messages'[out'[i].msg].content = out'[i].content
                /\ messages'[out'[i].msg].senderId = out'[i].user
                /\ messages'[out'[i].msg].conversationId = out'[i].conv
       /\ \A i \in DOMAIN out' :
            out'[i].ev = "message:status:update" => out'[i].msg \in DOMAIN messages
       /\ \A t \in tasks :
            MessageStatusEmit(t) =>
                /\ t.prior = "-" => out' = <<>>
                /\ out' # <<>> => t.prior # "-"
      ]_vars

\* C15's case: a message:status:update is out for a message that sends
\* inserted, the store holds the status it announces, every message id is
\* handed out and no handler is in flight.
C15_Witness ==
    /\ Len(out) = 1
    /\ out[1].ev = "message:status:update"
    /\ out[1].msg \in DOMAIN messages
    /\ messages[out[1].msg].status = out[1].status
    /\ nextId = MaxMsgs
    /\ tasks = {}

\* C16: when a send, over the socket or over REST, broadcasts message:new,
\* the conversation's updatedAt has already been moved up to the time of the
\* send: it is no earlier than the message's createdAt.
C16_UpdatedAtBumpedBeforeBroadcast ==
    [][\A t \in tasks :
          (MessageSendEmit(t) \/ PostMessageEmit(t)) =>
              /\ conversations[t.conv] # Null
              /\ conversations[t.conv] >= t.t
      ]_vars

\* The room broadcasts of an output, in order: what is left without the
\* answer to the HTTP caller.
RECURSIVE Broadcasts(_)
Broadcasts(o) ==
    IF o = <<>> THEN <<>>
    ELSE IF Head(o).ev = "http" THEN Broadcasts(Tail(o))
    ELSE <<Head(o).ev>> \o Broadcasts(Tail(o))

\* C17: a send that completes over REST and one that completes over the
\* socket leave the same on the room: message:new followed by
\* conversation:update, and a conversation whose updatedAt is no earlier than
\* the send.
C17_RestAndSocketSendAgree ==
    [][\A t \in tasks :
          (MessageSendEmit(t) \/ PostMessageEmit(t)) =>
              /\ Broadcasts(out') = <<"message:new", "conversation:update">>
              /\ conversations'[t.conv] # Null
              /\ conversations'[t.conv] >= t.t
      ]_vars

\* C18: when the edit of a message by its sender is stored, the row holds
\* the new content, trimmed, isEdited = true and the updatedAt of the edit,
\* and message:updated for that message goes to every open connection in the
\* room of its conversation.
C18_EditStoredAndBroadcast ==
    [][\A t \in tasks :
          (PutMessageUpdate(t) /\ t.msg \in DOMAIN messages) =>
              /\ messages'[t.msg].content = t.content
              /\ Trim(t.content) = t.content
              /\ messages'[t.msg].isEdited
              /\ messages'[t.msg].updatedAt = t.t
              /\ \E i \in DOMAIN out' :
                   /\ out'[i].ev = "message:updated"
                   /\ out'[i].msg = t.msg
                   /\ out'[i].to = { c \in Conns : st[c] = "open"
                                       /\ messages[t.msg].conversationId \in rooms[c] }
      ]_vars

\* C19: when the delete of a message by its sender is executed, the row is
\* gone from the store, and message:deleted goes to every open connection in
\* the room of its conversation, carrying the message id and no content.
C19_DeleteStoredAndBroadcast ==
    [][\A t \in tasks :
          (DeleteMessageDelete(t) /\ t.msg \in DOMAIN messages) =>
              /\ t.msg \notin DOMAIN messages'
              /\ \E i \in DOMAIN out' :
                   /\ out'[i].ev = "message:deleted"
                   /\ out'[i].msg = t.msg
                   /\ out'[i].content = <<>>
                   /\ out'[i].to = { c \in Conns : st[c] = "open"
                                       /\ messages[t.msg].conversationId \in rooms[c] }
      ]_vars

\* C20: a typing:start or typing:stop on a connection sends one typing:update
\* to the open connections in the room that belong to other users, and to no
\* connection of the user who is typing.
C20_TypingSkipsOwnConnections ==
    [][\A c \in Conns, cv \in Convs :
          (TypingStart(c, cv) \/ TypingStop(c, cv)) =>
              /\ Len(out') = 1
              /\ out'[1].ev = "typing:update"
              /\ out'[1].to = { d \in Conns : /\ st[d] = "open"
                                              /\ cv \in rooms[d]
                                              /\ connUser[d] # connUser[c] }
      ]_vars

\* The tokens that carry no verified identity: none sent, or one the identity
\* provider rejects.
Unverified == {NoToken, BadToken}

\* C21: a handshake without a verified token leaves the socket unconnected
\* and changes neither the store nor any room, and nothing is broadcast; a
\* socket rejected at the handshake stays rejected, its connection handler
\* never runs and none of its client events is handled; a REST chat request
\* without a verified token gets 401 and changes neither the store nor the
\* handlers in flight.
C21_UnverifiedIsRejected ==
    [][/\ \A c \in Conns, tok \in Unverified :
            Handshake(c, tok) =>
                /\ st'[c] # "open"
                /\ storeVars' = storeVars
                /\ rooms' = rooms /\ pc' = pc /\ connUser' = connUser
                /\ tasks' = tasks
                /\ out' = <<>>
       /\ \A c \in Conns :
            st[c] = "rejected" =>
                /\ st'[c] = "rejected" /\ rooms'[c] = {} /\ pc'[c] = "none"
                /\ ~ConnectionSetOnline(c) /\ ~ConnectionJoinRooms(c)
                /\ \A cv \in Convs : ~ConversationJoin(c, cv)
                /\ \A i \in DOMAIN out' : c \notin out'[i].to
       /\ \A tok \in Unverified :
            (\E ps \in SUBSET Users : AuthenticatePostConversations(tok, ps)) =>
                /\ storeVars' = storeVars
                /\ tasks' = tasks
                /\ Len(out') = 1 /\ out'[1].ev = "http" /\ out'[1].code = 401
      ]_vars

\* C21's case: a REST request was just answered 401 while one socket stands
\* rejected at the handshake and another one is connected and in a room.
C21_Witness ==
    /\ Len(out) = 1 /\ out[1].ev = "http" /\ out[1].code = 401
    /\ \E c \in Conns : st[c] = "rejected"
    /\ \E c \in Conns : Listening(c) /\ rooms[c] # {}

\* C22: a conversation:join for a conversation in which the user has no
\* participant row leaves every room as it is, emits no conversation:joined,
\* and emits one error event, to the requesting connection only.
C22_JoinByNonParticipantFails ==
    [][\A c \in Conns, cv \in Convs :
          (ConversationJoin(c, cv) /\ ~IsParticipant(cv, connUser[c])) =>
              /\ rooms' = rooms
              /\ \A i \in DOMAIN out' : out'[i].ev # "conversation:joined"
              /\ Len(out') = 1
              /\ out'[1].ev = "error"
              /\ out'[1].to = {c}
      ]_vars

\* C23: a message:status request on a message of a conversation in which the
\* requesting user has no participant row changes no stored message, and its
\* handler broadcasts no message:status:update.
C23_StatusByNonParticipantRejected ==
    [][/\ \A c \in Conns, m \in DOMAIN messages, status \in StatusInputs :
            (MessageStatus(c, m, status)
                /\ ~IsParticipant(messages[m].conversationId, connUser[c]))
              => messages' = messages
       /\ \A t \in tasks :
            (MessageStatusEmit(t) /\ t.msg \in DOMAIN messages
                /\ ~IsParticipant(messages[t.msg].conversationId, t.user))
              => \A i \in DOMAIN out' : out'[i].ev # "message:status:update"
      ]_vars

\* C24: a markRead on a conversation in which the caller has no participant
\* row is rejected: neither of its store calls changes a message or a
\* lastReadAt, nothing is broadcast, and the caller is not answered 200.
C24_MarkReadByNonParticipantRejected ==
    [][\A t \in tasks :
          ((PostReadSetLastRead(t) \/ PostReadSetMessages(t))
              /\ ~IsParticipant(t.conv, t.user)) =>
                /\ messages' = messages
                /\ lastReadAt' = lastReadAt
                /\ \A i \in DOMAIN out' :
                     /\ out'[i].ev # "message:status:update"
                     /\ out'[i].ev = "http" => out'[i].code # 200
      ]_vars

\* Content that is missing or consists of white space.
IsBlank(content) == \A i \in DOMAIN content : content[i] = " "

\* C25: a send (over the socket or REST) or an edit whose content is missing
\* or blank is answered to the requester alone, with "Message content is
\* required", and issues no store call: the store and the handlers in flight
\* are unchanged and nothing is broadcast.
C25_BlankContentRejectedFirst ==
    [][\A content \in Contents :
          IsBlank(content) =>
              /\ \A c \in Conns, cv \in Convs :
                   MessageSend(c, cv, content) =>
                       /\ storeVars' = storeVars /\ tasks' = tasks
                       /\ out' = <<ErrorEvent(c, "Message content is required")>>
              /\ \A u \in Users, cv \in Convs :
                   PostMessage(u, cv, content) =>
                       /\ storeVars' = storeVars /\ tasks' = tasks
                       /\ out' = <<Http(u, 400, "Message content is required")>>
              /\ \A u \in Users, m \in MsgIds :
                   PutMessage(u, m, content) =>
                       /\ storeVars' = storeVars /\ tasks' = tasks
                       /\ out' = <<Http(u, 400, "Message content is required")>>
      ]_vars

\* C25's case: a request was just answered 400 for its content by a user who
\* has a message in the store, while the store holds an edited message.
C25_Witness ==
    /\ Len(out) = 1 /\ out[1].code = 400
    /\ out[1].text = "Message content is required"
    /\ \E m \in DOMAIN messages : messages[m].senderId = out[1].user
    /\ \E m \in DOMAIN messages : messages[m].isEdited

\* Whether an output tells connection c of an error.
InformsConnection(o, c) == \E i \in DOMAIN o : o[i].ev = "error" /\ c \in o[i].to

\* Whether an output holds nothing but answers to a requester and log lines.
OnlyAnswers(o) == \A i \in DOMAIN o : o[i].ev \in {"error", "http", "log"}

\* C26: when a store call of a join, a send, a message:status or a markRead
\* throws, the handler ends there, the requester is told of the error (an
\* error event to the requesting connection, a 5xx answer to the REST
\* caller), and nothing is broadcast.
C26_StoreFailureAbortsAndInforms ==
    [][/\ \A c \in Conns :
            (\/ \E cv \in Convs : ConversationJoinFail(c, cv)
             \/ \E cv \in Convs, content \in Contents : MessageSendFail(c, cv, content)
             \/ \E m \in MsgIds, status \in StatusInputs : MessageStatusFail(c, m, status))
              => /\ tasks' = tasks
                 /\ storeVars' = storeVars
                 /\ InformsConnection(out', c)
                 /\ OnlyAnswers(out')
       /\ \A t \in tasks :
            (MessageSendInsertFail(t) \/ MessageSendEmitFail(t) \/ MessageStatusEmitFail(t))
              => /\ tasks' = tasks \ {t}
                 /\ storeVars' = storeVars
                 /\ InformsConnection(out', t.conn)
                 /\ OnlyAnswers(out')
       /\ \A t \in tasks :
            (PostReadSetLastReadFail(t) \/ PostReadSetMessagesFail(t))
              => /\ tasks' = tasks \ {t}
                 /\ storeVars' = storeVars
                 /\ \E i \in DOMAIN out' :
                      out'[i].ev = "http" /\ out'[i].user = t.user /\ out'[i].code >= 500
                 /\ OnlyAnswers(out')
      ]_vars

\* C27: when a store call throws in a handler of connection c, the calls of
\* its connection handler included, an error event goes to c and to no
\* other connection, nothing is broadcast, c stays open, and c is still being
\* set up or has its event handlers, so that its further events are handled.
C27_ErrorsAreLocalAndRecoverable ==
    [][\A c \in Conns :
          (\/ ConnectionSetOnlineFail(c)
           \/ ConnectionJoinRoomsFail(c)
           \/ \E cv \in Convs : ConversationJoinFail(c, cv))
            => /\ InformsConnection(out', c)
               /\ \A i \in DOMAIN out' : out'[i].ev = "error" => out'[i].to \subseteq {c}
               /\ OnlyAnswers(out')
               /\ st'[c] = "open"
               /\ pc'[c] \in {"update", "query", "ready"}
      ]_vars

\* C28: no step lowers the lastReadAt of a participant row, whatever the
\* interleaving of the markRead calls that write it.
C28_LastReadAtNeverDecreases ==
    [][\A p \in Convs \X Users :
          lastReadAt[p] # Null => (lastReadAt'[p] # Null /\ lastReadAt'[p] >= lastReadAt[p])
      ]_vars

\* C29: the unread count GET /chat/conversations answers for a conversation
\* of the caller is the number of stored messages of that conversation, by
\* other senders, created after the lastReadAt the request read (all of
\* those by other senders if it read none); it is computed from the store
\* alone, which the request leaves as it is: when the participant row is as
\* the request read it, the count is the one the store gives now.
C29_UnreadCountIsStoreFunction ==
    [][\A t \in tasks :
          GetConversationsCount(t) =>
              /\ storeVars' = storeVars
              /\ Len(out') = 1
              /\ DOMAIN out'[1].unread = DOMAIN t.seen
              /\ \A cv \in DOMAIN t.seen :
                   /\ out'[1].unread[cv] =
                        Cardinality({ m \in DOMAIN messages :
                            /\ messages[m].conversationId = cv
                            /\ messages[m].senderId # t.user
                            /\ \/ t.seen[cv] = Null
                               \/ messages[m].createdAt > t.seen[cv] })
                   /\ t.seen[cv] = lastReadAt[<<cv, t.user>>]
                        => out'[1].unread[cv] = UnreadCount(t.user, cv)
      ]_vars

\* C29's case: an answer is out that counts one unread message in a
\* conversation whose participant row has a lastReadAt, and none in another
\* conversation of the caller.
C29_Witness ==
    /\ Len(out) = 1 /\ out[1].ev = "http" /\ out[1].code = 200
    /\ \E cv \in DOMAIN out[1].unread :
          out[1].unread[cv] = 1 /\ lastReadAt[<<cv, out[1].user>>] # Null
    /\ \E cv \in DOMAIN out[1].unread : out[1].unread[cv] = 0

\* C30: the sends of one connection to one conversation are persisted and
\* broadcast in the order the connection submitted them: a message:send is
\* inserted only when no earlier send of its connection to the conversation
\* still waits for its insert, and its message:new goes out only when no
\* earlier one still waits for its insert or its broadcast.
C30_SameConnectionSendsInOrder ==
    [][\A t \in tasks :
          /\ MessageSendInsert(t) =>
                ~ \E e \in tasks : /\ e.k = "send:insert"
                                   /\ e.conn = t.conn /\ e.conv = t.conv
                                   /\ e.seq < t.seq
          /\ MessageSendEmit(t) =>
                ~ \E e \in tasks : /\ e.k \in {"send:insert", "send:emit"}
                                   /\ e.conn = t.conn /\ e.conv = t.conv
                                   /\ e.seq < t.seq
      ]_vars

\* C31: the connection handler joins its socket to rooms in one step: until
\* then the socket is in no conversation room, and when the handler completes
\* the socket is in the room of exactly the conversations its user has a
\* participant row in as the store query answers; no other socket's rooms
\* change.
C31_AutoJoinIsOneExactBatch ==
    [][\A c \in Conns :
          ConnectionJoinRooms(c) =>
              /\ rooms[c] = {}
              /\ pc'[c] = "ready"
              /\ rooms'[c] = { cv \in Convs : <<cv, connUser[c]>> \in participants }
              /\ \A d \in Conns \ {c} : rooms'[d] = rooms[d]
      ]_vars

\* C31's case: an open connection has just completed its setup and was joined
\* to two rooms at once, while a conversation exists that its user is no
\* participant of.
C31_Witness ==
    \E c \in Conns, cv \in Convs :
        /\ st[c] = "open" /\ pc[c] = "ready"
        /\ Len(out) = 1 /\ out[1].ev = "user:online" /\ out[1].user = connUser[c]
        /\ Cardinality(rooms[c]) = 2
        /\ conversations[cv] # Null /\ ~IsParticipant(cv, connUser[c])

\* C32: a typing:start or typing:stop naming a conversation its user has no
\* participant row in delivers typing:update to no connection.
C32_TypingByNonParticipantRejected ==
    [][\A c \in Conns, cv \in Convs :
          ((TypingStart(c, cv) \/ TypingStop(c, cv)) /\ ~IsParticipant(cv, connUser[c]))
              => \A i \in DOMAIN out' : out'[i].ev = "typing:update" => out'[i].to = {}
      ]_vars

\* C33: when the last of the message:status requests in flight for a message
\* completes, the status its message:status:update carries, the last one
\* broadcast for the message, is the status the store holds for it.
C33_LastBroadcastStatusIsStored ==
    [][\A t \in tasks :
          (/\ MessageStatusEmit(t)
           /\ t.msg \in DOMAIN messages
           /\ ~ \E e \in tasks' : e.k = "status:emit" /\ e.msg = t.msg)
              => \A i \in DOMAIN out' :
                    (out'[i].ev = "message:status:update" /\ out'[i].msg = t.msg)
                        => out'[i].status = messages'[t.msg].status
      ]_vars

\* C34: a user with an open connection whose connection handler has completed
\* is stored as online.
C34_OnlineWhileConnected ==
    \A u \in Users :
        (\E c \in LiveConns(u) : pc[c] = "ready") => isOnline[u]

\* C35: whenever a user who has connected has no open connection left, then,
\* unless the user connects again, the store comes to hold the user as
\* offline and user:offline is broadcast for the user, whether the
\* connections closed after or during their connection handlers.
C35_EventuallyOffline ==
    \A u \in Users :
        ((\E c \in Conns : connUser[c] = u) /\ LiveConns(u) = {})
            ~> (LiveConns(u) # {} \/ (~isOnline[u] /\ offlineCount[u] > 0))

\* C36: where no connection leaves a room or closes, the message:new of a
\* message sent to a conversation is delivered to every set-up connection of
\* every participant of the conversation, also when the conversation was
\* created after the connections were set up.
C36_EveryParticipantConnectionReceives ==
    [][\A t \in tasks :
          MessageSendEmit(t) =>
              \A c \in Conns :
                  (Listening(c) /\ IsParticipant(t.conv, connUser[c])) =>
                      \E i \in DOMAIN out' : /\ out'[i].ev = "message:new"
                                             /\ out'[i].msg = t.msg
                                             /\ c \in out'[i].to
      ]_vars


====
